---- MODULE Spec2Model ----
(***************************************************************************)
(* A model of the gacha URL pipeline of HoYo.Gacha                         *)
(* (src-tauri/src/gacha/utilities.rs and plugin.rs):                       *)
(*   - request_gacha_url and request_gacha_url_with_retry   (SpecFetch)    *)
(*   - find_gacha_url_and_validate_consistency and its cache (Spec)        *)
(*   - lookup_gacha_urls_from_endpoint                       (SpecLookup)  *)
(* Strings the code searches (messages, urls) are sequences of characters, *)
(* so that str::contains and str::strip_prefix are computed, not assumed.  *)
(***************************************************************************)
EXTENDS Integers, Sequences, FiniteSets, TLC

VARIABLES
  \* request_gacha_url_with_retry: one call of the retry loop
  fpc,          \* "idle" | "request" | "sleep" | "done"
  backoff,      \* the items the Backoff iterator yields: "Some" | "None"
  attempt,      \* the position of `for duration in &backoff` (1-based)
  responses,    \* what each HTTP round trip of the call returned, in order
  outcomes,     \* what request_gacha_url returned for each of them
  sleeps,       \* how many times sleep(duration) was awaited
  fresult,      \* the value the call returned
  \* find_gacha_url_and_validate_consistency and GACHA_URL_CACHED
  cached,       \* GACHA_URL_CACHED: a set of [key, value], one per key
  now,          \* the wall clock, Unix seconds
  holder,       \* the task that holds the Mutex of GACHA_URL_CACHED, or "free"
  waiters,      \* the tasks queued on the Mutex, first come first served
  entered,      \* how many calls got the lock
  call,         \* per task: the call it makes
  \* lookup_gacha_urls_from_endpoint: one call
  lpc,          \* "idle" | "done"
  table,        \* index_file.table: the cache addresses, in order
  block_file1,  \* data_1: the EntryStore at each address of the table
  this_file,    \* block_file2.header.this_file
  skip_expired, \* the argument
  lresult,      \* the value the call returned
  long_url_reads, \* the addresses whose long url was read from data_2
  \* pull_all_gacha_records: one call
  ppc,          \* "idle" | "save_all" | "delete" | "save" | "done"
  records,      \* what create_fetcher_channel returned
  full_amount,  \* the argument, unwrapped
  storage,      \* the records the storage holds for the uid
  groups,       \* the groups the loop has not yet taken
  group,        \* the gacha type of the group the loop is at
  deleted,
  new,
  storage_calls, \* the calls the storage has answered, in order
  presult,      \* the value the command returned
  \* lookup_valid_cache_data_dir: one call
  dpc,          \* "idle" | "done"
  web_caches_dir, \* <game_data_dir>/webCaches: whether it exists, and its entries
  dresult,      \* the value the call returned
  \* fetch_gacha_records: one call
  qpc,          \* "idle" | "request" | "done"
  qargs,        \* the arguments
  request_url,  \* the url handed to request_gacha_url_with_retry
  qresult       \* the kind of value the call returned

fetchVars == <<fpc, backoff, attempt, responses, outcomes, sleeps, fresult>>
validateVars == <<cached, now, holder, waiters, entered, call>>

lookupVars ==
  <<lpc, table, block_file1, this_file, skip_expired, lresult, long_url_reads>>

pullVars ==
  <<ppc, records, full_amount, storage, groups, group, deleted, new,
    storage_calls, presult>>

dirVars == <<dpc, web_caches_dir, dresult>>

queryVars == <<qpc, qargs, request_url, qresult>>

vars == <<fetchVars, validateVars, lookupVars, pullVars, dirVars, queryVars>>

\* what the actions of one part leave alone
notFetch == <<validateVars, lookupVars, pullVars, dirVars, queryVars>>
notValidate == <<fetchVars, lookupVars, pullVars, dirVars, queryVars>>
notLookup == <<fetchVars, validateVars, pullVars, dirVars, queryVars>>
notPull == <<fetchVars, validateVars, lookupVars, dirVars, queryVars>>
notDir == <<fetchVars, validateVars, lookupVars, pullVars, queryVars>>
notQuery == <<fetchVars, validateVars, lookupVars, pullVars, dirVars>>

\* ------------------------------------------------------------------ strings

\* str::contains(sub): sub occurs in s as a contiguous run of characters
Contains(s, sub) ==
  \E i \in 0..(Len(s) - Len(sub)) : SubSeq(s, i + 1, i + Len(sub)) = sub

AUTHKEY == <<"a", "u", "t", "h", "k", "e", "y">>
AUTH_KEY == <<"a", "u", "t", "h", " ", "k", "e", "y">>
VISIT_TOO_FREQUENTLY ==
  <<"v", "i", "s", "i", "t", " ", "t", "o", "o", " ",
    "f", "r", "e", "q", "u", "e", "n", "t", "l", "y">>

\* ------------------------------------------------ the remote API's answers

MsgEmpty == <<>>
MsgAuthkeyTimeout == AUTHKEY \o <<" ", "t", "i", "m", "e", "o", "u", "t">>
MsgInvalidAuthKey == <<"i", "n", "v", "a", "l", "i", "d", " ">> \o AUTH_KEY
MsgVisit == VISIT_TOO_FREQUENTLY
MsgUpperAuthkey == <<"A", "u", "t", "h", "k", "e", "y">>
MsgVisitAuthkey == VISIT_TOO_FREQUENTLY \o <<" ">> \o AUTHKEY

Messages ==
  {MsgEmpty, MsgAuthkeyTimeout, MsgInvalidAuthKey, MsgVisit, MsgUpperAuthkey,
   MsgVisitAuthkey}

Retcodes == {0, -101, -110, -1}

\* GachaResponse<T>: { retcode, message, data: Option<T> }
GachaResponses ==
  [retcode : Retcodes \ {0}, message : Messages, data : {"null"}]
    \cup [retcode : {0}, message : {MsgEmpty, MsgAuthkeyTimeout}, data : {"null", "list"}]

\* One HTTP round trip `reqwest.get(url).send().await?.json().await?`: either
\* the transport or the JSON decoding fails, or a GachaResponse is decoded.
NoResponse == [retcode |-> 0, message |-> MsgEmpty, data |-> "null"]
HttpRoundTrips ==
  {[io |-> "error", response |-> NoResponse]}
    \cup {[io |-> "ok", response |-> r] : r \in GachaResponses}

\* Result<GachaResponse<T>>
Ok(response) ==
  [kind |-> "Ok", retcode |-> response.retcode, message |-> response.message,
   data |-> response.data]
Err(kind) ==
  [kind |-> kind, retcode |-> 0, message |-> MsgEmpty, data |-> "null"]
ErrGachaRecordRetcode(retcode, message) ==
  [kind |-> "GachaRecordRetcode", retcode |-> retcode, message |-> message,
   data |-> "null"]

\* (request_gacha_url with the rate-limit test before the authorization test)
request_gacha_url_swapped(http) ==
  IF http.io # "ok" THEN Err("Reqwest")
  ELSE LET response == http.response
           retcode == response.retcode
           message == response.message
       IN IF retcode # 0
          THEN IF retcode = -110 \/ Contains(message, VISIT_TOO_FREQUENTLY)
               THEN Err("VisitTooFrequentlyGachaUrl")
               ELSE IF retcode = -101 \/ Contains(message, AUTHKEY)
                         \/ Contains(message, AUTH_KEY)
               THEN Err("TimeoutdGachaUrl")
               ELSE ErrGachaRecordRetcode(retcode, response.message)
          ELSE Ok(response)

\* request_gacha_url: one round trip and the classification of its retcode
request_gacha_url(http) ==
  IF http.io # "ok" THEN Err("Reqwest")
  ELSE LET response == http.response
           retcode == response.retcode
           message == response.message
       IN IF retcode # 0
          THEN IF retcode = -101 \/ Contains(message, AUTHKEY)
                    \/ Contains(message, AUTH_KEY)
               THEN Err("TimeoutdGachaUrl")
               ELSE IF retcode = -110 \/ Contains(message, VISIT_TOO_FREQUENTLY)
               THEN Err("VisitTooFrequentlyGachaUrl")
               ELSE ErrGachaRecordRetcode(retcode, response.message)
          ELSE Ok(response)

\* ------------------------------------------- request_gacha_url_with_retry

\* const RETRIES: u8 = 5
RETRIES == 5

\* `retries.unwrap_or(RETRIES)`: every caller passes None
unwrap_or_RETRIES(retries) == IF retries = "None" THEN RETRIES ELSE retries

\* The items `for duration in &backoff` goes through for
\* Backoff::new(retries, min, max).  The exponential_backoff crate is not part
\* of this repository and the release the build links decides the count:
\*   1.x  (Backoff::new(retries, ..)):      retries times Some(duration), then
\*        one None, that is retries + 1 items;
\*   2.x  (Backoff::new(max_attempts, ..)): max_attempts items, the last None.
\* Both are outcomes a build of this source can produce.
BackoffItems1(retries) ==
  [i \in 1..(retries + 1) |-> IF i <= retries THEN "Some" ELSE "None"]
BackoffItems2(max_attempts) ==
  [i \in 1..max_attempts |-> IF i < max_attempts THEN "Some" ELSE "None"]
Backoff(retries) == {BackoffItems1(retries), BackoffItems2(retries)}

\* (a loop that waits and retries after every error)
RetryOnAnyError(result) == result.kind # "Ok"

\* the match arm `Err(Error::VisitTooFrequentlyGachaUrl) => { .. continue }`
WaitAndRetry(result) == result.kind = "VisitTooFrequentlyGachaUrl"

FetchIdle ==
  /\ fpc = "idle"
  /\ backoff = <<>>
  /\ attempt = 0
  /\ responses = <<>>
  /\ outcomes = <<>>
  /\ sleeps = 0
  /\ fresult = Err("None")

\* the end of one iteration of `for duration in &backoff`: the next item, or
\* the code after the loop
NextDuration ==
  IF attempt < Len(backoff)
  THEN /\ attempt' = attempt + 1
       /\ fpc' = "request"
       /\ fresult' = fresult
  ELSE /\ fpc' = "done"
       /\ fresult' = Err("VisitTooFrequentlyGachaUrl")
       /\ attempt' = attempt

\* the call, up to the first `request_gacha_url(..).await`
request_gacha_url_with_retry(retries) ==
  /\ fpc = "idle"
  /\ \E b \in Backoff(unwrap_or_RETRIES(retries)) :
       /\ backoff' = b
       /\ IF Len(b) > 0
          THEN fpc' = "request" /\ attempt' = 1 /\ fresult' = fresult
          ELSE /\ fpc' = "done" /\ attempt' = 0
               /\ fresult' = Err("VisitTooFrequentlyGachaUrl")
  /\ UNCHANGED <<responses, outcomes, sleeps>>
  /\ UNCHANGED notFetch

\* `match request_gacha_url(reqwest, url.clone()).await { .. }` once the round
\* trip has returned http
RequestReturns(http) ==
  /\ fpc = "request"
  /\ LET result == request_gacha_url(http) IN
       /\ responses' = Append(responses, http)
       /\ outcomes' = Append(outcomes, result)
       /\ IF result.kind = "Ok"
          THEN fpc' = "done" /\ fresult' = result /\ UNCHANGED <<attempt, sleeps>>
          ELSE IF WaitAndRetry(result)
          THEN IF backoff[attempt] = "Some"
               THEN /\ fpc' = "sleep"
                    /\ sleeps' = sleeps + 1
                    /\ UNCHANGED <<attempt, fresult>>
               ELSE NextDuration /\ UNCHANGED sleeps
          ELSE fpc' = "done" /\ fresult' = result /\ UNCHANGED <<attempt, sleeps>>
  /\ UNCHANGED backoff
  /\ UNCHANGED notFetch

\* `sleep(duration).await` returns, then `continue`
SleepReturns ==
  /\ fpc = "sleep"
  /\ NextDuration
  /\ UNCHANGED <<backoff, responses, outcomes, sleeps>>
  /\ UNCHANGED notFetch


NextFetch ==
  \/ request_gacha_url_with_retry("None")
  \/ \E http \in HttpRoundTrips : RequestReturns(http)
  \/ SleepReturns


\* ------------------------------------------------- properties of SpecFetch

RateLimitedAt(i) == outcomes[i].kind = "VisitTooFrequentlyGachaUrl"

\* the position of the first response that is not rate-limited, if any
FirstNotRateLimited ==
  {k \in 1..Len(outcomes) :
     ~RateLimitedAt(k) /\ \A j \in 1..(k - 1) : RateLimitedAt(j)}

\* C3: with the default budget, a call whose responses are all rate-limited
\* sends exactly 5 requests and returns VisitTooFrequentlyGachaUrl, and no call
\* sends more than 5 requests.
C3_ExactlyFiveRequests ==
  /\ Len(responses) <= RETRIES
  /\ (fpc = "done" /\ \A i \in 1..Len(outcomes) : RateLimitedAt(i))
       => /\ Len(responses) = RETRIES
          /\ fresult = Err("VisitTooFrequentlyGachaUrl")

\* C4: if the k-th response (k within the budget) is the first that is not
\* rate-limited, the call has sent exactly k requests, slept only after the
\* k - 1 rate-limited ones, and has returned the k-th outcome unchanged.
C4_RetryOnlyAfterRateLimit ==
  \A k \in FirstNotRateLimited :
    k <= RETRIES =>
      /\ fpc = "done"
      /\ Len(responses) = k
      /\ sleeps = k - 1
      /\ fresult = outcomes[k]
      /\ responses[k].io = "ok" /\ responses[k].response.retcode = 0
           => /\ fresult.kind = "Ok"
              /\ fresult.data = responses[k].response.data
              /\ fresult.message = responses[k].response.message
      /\ responses[k].io = "error" => fresult = Err("Reqwest")

C4_Witness ==
  /\ fpc = "done"
  /\ Len(responses) = 3
  /\ RateLimitedAt(1) /\ RateLimitedAt(2)
  /\ fresult.kind = "Ok" /\ fresult.data = "list"

AuthSignal(r) ==
  r.retcode = -101 \/ Contains(r.message, AUTHKEY) \/ Contains(r.message, AUTH_KEY)
RateSignal(r) ==
  r.retcode = -110 \/ Contains(r.message, VISIT_TOO_FREQUENTLY)

\* C5 as stated: retcode 0 is success; a non-zero response with the
\* authorization signal is TimeoutdGachaUrl; a non-zero response with the
\* rate-limit signal is VisitTooFrequentlyGachaUrl; every other non-zero
\* response is GachaRecordRetcode with the same retcode and message.
C5_ClassifyAsStated ==
  \A i \in 1..Len(responses) :
    responses[i].io = "ok" =>
      LET r == responses[i].response
          o == outcomes[i]
      IN /\ r.retcode = 0 => o = Ok(r)
         /\ (r.retcode # 0 /\ AuthSignal(r)) => o.kind = "TimeoutdGachaUrl"
         /\ (r.retcode # 0 /\ RateSignal(r)) => o.kind = "VisitTooFrequentlyGachaUrl"
         /\ (r.retcode # 0 /\ ~AuthSignal(r) /\ ~RateSignal(r))
              => o = ErrGachaRecordRetcode(r.retcode, r.message)

\* C5 amended: the authorization signal is tested first, so a non-zero response
\* is VisitTooFrequentlyGachaUrl only if it carries the rate-limit signal and
\* no authorization signal; a response carrying both is TimeoutdGachaUrl.
C5_ClassifyAuthFirst ==
  \A i \in 1..Len(responses) :
    responses[i].io = "ok" =>
      LET r == responses[i].response
          o == outcomes[i]
      IN /\ r.retcode = 0 => o = Ok(r)
         /\ (r.retcode # 0 /\ AuthSignal(r)) => o.kind = "TimeoutdGachaUrl"
         /\ (r.retcode # 0 /\ RateSignal(r) /\ ~AuthSignal(r))
              => o.kind = "VisitTooFrequentlyGachaUrl"
         /\ (r.retcode # 0 /\ ~AuthSignal(r) /\ ~RateSignal(r))
              => o = ErrGachaRecordRetcode(r.retcode, r.message)

C5_Witness ==
  /\ Len(responses) = 2
  /\ responses[1].response.retcode = -1 /\ RateLimitedAt(1)
  /\ responses[2].io = "ok"
  /\ responses[2].response.retcode = -110
  /\ AuthSignal(responses[2].response)
  /\ outcomes[2].kind = "TimeoutdGachaUrl"

\* ------------------------------------------------------------ wide integers

\* A timestamp in seconds does not fit TLC's 32-bit integers once it is counted
\* from 1601, so an integer n is kept as [hi, lo] with n = hi * Million + lo
\* and 0 <= lo < Million (hi carries the sign).
Million == 1000000

W(hi, lo) == [hi |-> hi, lo |-> lo]
WLess(a, b) == a.hi < b.hi \/ (a.hi = b.hi /\ a.lo < b.lo)
WLessEq(a, b) == a = b \/ WLess(a, b)
\* a + n for a machine integer n >= 0
WAdd(a, n) ==
  LET s == a.lo + n IN W(a.hi + (s \div Million), s % Million)
\* a - b
WSub(a, b) ==
  LET d == a.lo - b.lo
  IN IF d >= 0 THEN W(a.hi - b.hi, d) ELSE W(a.hi - b.hi - 1, d + Million)

\* time::Duration::DAY, in seconds
DAY == 86400

\* `creation_time + time::Duration::DAY > local_datetime`
Fresh(creation_time, local_datetime) ==
  WLess(local_datetime, WAdd(creation_time, DAY))

\* ------------------------- find_gacha_url_and_validate_consistency: inputs

\* the tasks that run the command, one call each
Procs == {"t1", "t2"}
Facets == {"genshin"}
Uids == {"100", "200"}

\* the clock starts at Epoch0 and advances by Tick seconds, MaxTicks times
Epoch0 == W(1730, 0)
Tick == 43200
MaxTicks == 2
\* the longest candidate list
MaxUrls == 6

\* GachaUrl { addr, creation_time, value }
GachaUrl(addr, creation_time, value) ==
  [addr |-> addr, creation_time |-> creation_time, value |-> value]
NoUrl == GachaUrl(0, W(0, 0), <<>>)

\* Three urls in two cache slots: slot 2 is rewritten one tick after Epoch0.
UrlA == GachaUrl(1, Epoch0, <<"A">>)
UrlB == GachaUrl(2, WSub(Epoch0, W(0, Tick)), <<"B">>)
UrlC == GachaUrl(2, WAdd(Epoch0, Tick), <<"C">>)
\* and further slots, each as old as UrlB
UrlN(addr) == GachaUrl(addr, WSub(Epoch0, W(0, Tick)), <<"N">>)

\* The lists find_gacha_urls can hand over: one url per slot, sorted by
\* creation time, newest first (lookup_gacha_urls_from_endpoint sorts them).
RECURSIVE LongList(_)
LongList(n) ==
  IF n = 0 THEN <<>>
  ELSE IF n = 1 THEN <<UrlA>>
  ELSE IF n = 2 THEN <<UrlA, UrlB>>
  ELSE Append(LongList(n - 1), UrlN(n))

CandidateLists ==
  {LongList(n) : n \in {0, 1, 2, MaxUrls}} \cup {<<UrlB>>, <<UrlC>>, <<UrlC, UrlA>>}

\* what fetch_gacha_records_any_uid returns: Result<Option<String>>.  It ends
\* in request_gacha_url_with_retry, so its errors are those of request_gacha_url.
OkUid(gacha_url_uid) ==
  [kind |-> "Ok", retcode |-> 0, message |-> MsgEmpty, data |-> gacha_url_uid]
ProbeErrors ==
  {r \in {request_gacha_url(http) : http \in HttpRoundTrips} : r.kind # "Ok"}
\* Slots 1 and 2 may hold the url of any account, or of one without records
\* (None); the urls of the further slots are those of account "200".
ProbeResults(gacha_url) ==
  {OkUid(u) : u \in IF gacha_url.addr <= 2 THEN Uids \cup {"None"} ELSE {"200"}}
    \cup ProbeErrors

\* Result<GachaUrl>
OkUrl(gacha_url) == [kind |-> "Ok", url |-> gacha_url, error |-> Err("None")]
ErrUrl(error) == [kind |-> error.kind, url |-> NoUrl, error |-> error]

\* ----------------------------------------------------- GACHA_URL_CACHED

\* `format!("{}-{}-{}", facet, uid, gacha_url.addr)`: the three parts
combine_key(f, uid, gacha_url) == <<f, uid, gacha_url.addr>>

\* HashMap::entry(key): the entry of the key, if occupied
Occupied(map, key) == {e \in map : e.key = key}
\* HashMap::insert(key, value)
Insert(map, key, value) ==
  (map \ Occupied(map, key)) \cup {[key |-> key, value |-> value]}
\* OccupiedEntry::remove_entry()
RemoveEntry(map, key) == map \ Occupied(map, key)

\* ------------------------------ find_gacha_url_and_validate_consistency

IdleCall ==
  [pc |-> "idle", facet |-> "none", uid |-> "none", gacha_urls |-> <<>>,
   local_datetime |-> W(0, 0), valid_gacha_urls |-> <<>>, counter |-> 0,
   cached0 |-> {}, probed |-> <<>>, result |-> ErrUrl(Err("None")), seq |-> 0]

NoCalls ==
  /\ cached = {}
  /\ holder = "free"
  /\ waiters = <<>>
  /\ entered = 0
  /\ call = [p \in Procs |-> IdleCall]

ValidateIdle == NoCalls /\ now = Epoch0

\* `.filter(|item| item.creation_time + time::Duration::DAY > local_datetime)`
RECURSIVE FilterFresh(_, _)
FilterFresh(gacha_urls, local_datetime) ==
  IF gacha_urls = <<>> THEN <<>>
  ELSE LET rest == FilterFresh(Tail(gacha_urls), local_datetime)
       IN IF Fresh(Head(gacha_urls).creation_time, local_datetime)
          THEN <<Head(gacha_urls)>> \o rest
          ELSE rest

\* (a validator that files a probed url under the uid it was asked for)
InsertKeyExpected(f, uid, gacha_url_uid, gacha_url) ==
  combine_key(f, uid, gacha_url)

\* `let key = combine_key(facet, gacha_url_uid, gacha_url)` of the insert
InsertKey(f, uid, gacha_url_uid, gacha_url) ==
  combine_key(f, gacha_url_uid, gacha_url)

\* (a validator that returns the remote error as it is)
MatchProbeRaw(result) ==
  IF result.kind = "Ok" THEN "Cache" ELSE "Return"

\* (a validator that goes on to the next candidate when the authkey expired)
MatchProbeNext(result) ==
  IF result.kind = "GachaRecordRetcode" THEN "Vacant"
  ELSE IF result.kind = "TimeoutdGachaUrl" THEN "Continue"
  ELSE IF result.kind # "Ok" THEN "Return"
  ELSE "Cache"

\* the arms of `match result { .. }`
MatchProbe(result) ==
  IF result.kind = "GachaRecordRetcode" THEN "Vacant"
  ELSE IF result.kind # "Ok" THEN "Return"
  ELSE "Cache"

Returned(map, c, result) ==
  [cached |-> map, call |-> [c EXCEPT !.pc = "done", !.result = result]]

\* (a validator that returns the cached url whatever its age)
LoopTopAnyAge(map, c) ==
  IF c.counter >= Len(c.valid_gacha_urls)
  THEN Returned(map, c, ErrUrl(Err("VacantGachaUrl")))
  ELSE LET gacha_url == c.valid_gacha_urls[c.counter + 1]
           key == combine_key(c.facet, c.uid, gacha_url)
           entry == Occupied(map, key)
       IN IF entry # {}
          THEN Returned(map, c, OkUrl((CHOOSE e \in entry : TRUE).value))
          ELSE [cached |-> map,
                call |-> [c EXCEPT !.pc =
                            IF c.counter # 0 /\ c.counter % 5 = 0
                            THEN "sleep" ELSE "probe"]]

\* One pass of the loop body from its top to the next await, for the candidate
\* at position c.counter (from 0): the cache lookup, then the throttle.
LoopTop(map, c) ==
  IF c.counter >= Len(c.valid_gacha_urls)
  THEN Returned(map, c, ErrUrl(Err("VacantGachaUrl")))
  ELSE LET gacha_url == c.valid_gacha_urls[c.counter + 1]
           key == combine_key(c.facet, c.uid, gacha_url)
           entry == Occupied(map, key)
       IN IF \E e \in entry : Fresh(e.value.creation_time, c.local_datetime)
          THEN Returned(map, c, OkUrl((CHOOSE e \in entry : TRUE).value))
          ELSE [cached |-> RemoveEntry(map, key),
                call |-> [c EXCEPT !.pc =
                            IF c.counter # 0 /\ c.counter % 5 = 0
                            THEN "sleep" ELSE "probe"]]

\* The code from the lock to the first await of the loop.
\* (create_default_reqwest and now_local are taken to succeed.)
Locked(p, c) ==
  LET c1 == [c EXCEPT !.local_datetime = now,
                      !.valid_gacha_urls = FilterFresh(c.gacha_urls, now),
                      !.counter = 0,
                      !.cached0 = cached,
                      !.probed = <<>>,
                      !.seq = entered + 1]
  IN LoopTop(cached, c1)

\* `match result { .. }` once the probe of the candidate has returned, up to
\* the next await or the return
Probed(c, result) ==
  LET gacha_url == c.valid_gacha_urls[c.counter + 1]
      c1 == [c EXCEPT !.probed = Append(c.probed, [url |-> gacha_url, result |-> result])]
      next == [c1 EXCEPT !.counter = c.counter + 1]
      arm == MatchProbe(result)
  IN IF arm = "Vacant" THEN Returned(cached, c1, ErrUrl(Err("VacantGachaUrl")))
     ELSE IF arm = "Return" THEN Returned(cached, c1, ErrUrl(result))
     ELSE IF arm = "Continue" THEN LoopTop(cached, next)
     ELSE LET gacha_url_uid == result.data
              map == IF gacha_url_uid # "None"
                     THEN Insert(cached,
                                 InsertKey(c.facet, c.uid, gacha_url_uid, gacha_url),
                                 gacha_url)
                     ELSE cached
          IN IF gacha_url_uid = c.uid
             THEN Returned(map, c1, OkUrl(gacha_url))
             ELSE LoopTop(map, next)

\* the MutexGuard is dropped: the first waiter, if any, gets the lock
Unlock ==
  IF waiters = <<>>
  THEN holder' = "free" /\ waiters' = waiters
  ELSE holder' = Head(waiters) /\ waiters' = Tail(waiters)

\* (a validator that gives the lock up only when it returns a url)
StepKeepsLockOnError(p, out) ==
  /\ cached' = out.cached
  /\ call' = [call EXCEPT ![p] = out.call]
  /\ IF out.call.pc = "done" /\ out.call.result.kind = "Ok"
     THEN Unlock ELSE UNCHANGED <<holder, waiters>>

\* (a validator that takes the lock per candidate: it gives the lock up at
\* every await)
StepPerCandidate(p, out) ==
  /\ cached' = out.cached
  /\ call' = [call EXCEPT ![p] = out.call]
  /\ Unlock

\* the state after a stretch of task p that ran while p held the lock
Step(p, out) ==
  /\ cached' = out.cached
  /\ call' = [call EXCEPT ![p] = out.call]
  /\ IF out.call.pc = "done" THEN Unlock ELSE UNCHANGED <<holder, waiters>>

\* A task calls find_gacha_url_and_validate_consistency.  With the lock free,
\* `GACHA_URL_CACHED.lock().await` is ready at once and the task runs on to its
\* first await; otherwise it queues.
find_gacha_url_and_validate_consistency(p, f, uid, gacha_urls) ==
  /\ call[p].pc = "idle"
  /\ \A i \in 1..Len(gacha_urls) : WLessEq(gacha_urls[i].creation_time, now)
  /\ LET c == [IdleCall EXCEPT !.pc = "lock", !.facet = f, !.uid = uid,
                               !.gacha_urls = gacha_urls]
     IN IF holder = "free"
        THEN LET out == Locked(p, c)
             IN /\ cached' = out.cached
                /\ call' = [call EXCEPT ![p] = out.call]
                /\ holder' = IF out.call.pc = "done" THEN "free" ELSE p
                /\ entered' = entered + 1
                /\ UNCHANGED waiters
        ELSE /\ call' = [call EXCEPT ![p] = c]
             /\ waiters' = Append(waiters, p)
             /\ UNCHANGED <<cached, holder, entered>>
  /\ UNCHANGED now
  /\ UNCHANGED notValidate

\* a queued task is given the lock and runs on to its first await
LockAcquired(p) ==
  /\ call[p].pc = "lock"
  /\ holder = p
  /\ Step(p, Locked(p, call[p]))
  /\ entered' = entered + 1
  /\ UNCHANGED now
  /\ UNCHANGED notValidate

\* `tokio::time::sleep(Duration::from_secs(3)).await` returns
ThrottleReturns(p) ==
  /\ call[p].pc = "sleep"
  /\ call' = [call EXCEPT ![p].pc = "probe"]
  /\ UNCHANGED <<cached, now, holder, waiters, entered>>
  /\ UNCHANGED notValidate

\* `fetcher.fetch_gacha_records_any_uid(&reqwest, gacha_url).await` returns
ProbeReturns(p, result) ==
  /\ call[p].pc = "probe"
  /\ Step(p, Probed(call[p], result))
  /\ UNCHANGED <<now, entered>>
  /\ UNCHANGED notValidate

\* what the probe in flight of task p can return
ProbeResultsNow(p) ==
  IF call[p].pc = "probe"
  THEN ProbeResults(call[p].valid_gacha_urls[call[p].counter + 1])
  ELSE {}

\* time passes
ClockTick ==
  /\ WLess(now, WAdd(Epoch0, MaxTicks * Tick))
  /\ now' = WAdd(now, Tick)
  /\ UNCHANGED <<cached, holder, waiters, entered, call>>
  /\ UNCHANGED notValidate

\* ------------------------------------------- pull_all_gacha_records: inputs

\* the greatest record id, and the longest fetched batch
MaxId == 3
MaxRecords == 3

GachaTypes == {"200", "301"}

\* a record as far as the command reads it; ids are strings of one length,
\* which order as the numbers they spell
GachaRecord(gacha_type, id) == [gacha_type |-> gacha_type, id |-> id]
GachaRecords == {GachaRecord(t, id) : t \in GachaTypes, id \in 1..MaxId}

\* the batches create_fetcher_channel can return: records of distinct ids, in
\* any order
FetchedBatches ==
  UNION {{b \in [1..n -> GachaRecords] :
            \A i, j \in 1..n : i # j => b[i].id # b[j].id} : n \in 0..MaxRecords}

\* storage.delete_*_gacha_records_by_newer_than_end_id(uid, gacha_type, end_id):
\* the records it removes
NewerThan(store, gacha_type, end_id) ==
  {r \in store : r.gacha_type = gacha_type /\ r.id > end_id}

\* storage.save_*_gacha_records(records): the records it adds
NotStored(store, batch) ==
  {batch[i] : i \in 1..Len(batch)} \ store

\* ------------------------------------------------- pull_all_gacha_records

\* the records of one gacha type, in the order of the batch
RECURSIVE GroupOf(_, _)
GroupOf(batch, gacha_type) ==
  IF batch = <<>> THEN <<>>
  ELSE IF Head(batch).gacha_type = gacha_type
       THEN <<Head(batch)>> \o GroupOf(Tail(batch), gacha_type)
       ELSE GroupOf(Tail(batch), gacha_type)

\* the fold into `groups`: a HashMap from gacha type to its records
GroupsOf(batch) ==
  [t \in {batch[i].gacha_type : i \in 1..Len(batch)} |-> GroupOf(batch, t)]

\* `records.last().map(|record| record.id.as_str()).unwrap()`
oldest_end_id(group_records) == group_records[Len(group_records)].id

PullOk(changes) == [kind |-> "Ok", changes |-> changes]
PullErr == [kind |-> "Err", changes |-> 0]
PullNone == [kind |-> "None", changes |-> 0]

PullIdle ==
  /\ ppc = "idle"
  /\ records = <<>>
  /\ full_amount = FALSE
  /\ storage = {}
  /\ groups = <<>>
  /\ group = "none"
  /\ deleted = 0
  /\ new = 0
  /\ storage_calls = <<>>
  /\ presult = PullNone

\* The command, up to its first call of the storage.  `for (gacha_type,
\* records) in groups` takes the groups in the order of the HashMap, which is
\* any order.
pull_all_gacha_records(batch, save_to_storage, full) ==
  /\ ppc = "idle"
  /\ records' = batch
  /\ full_amount' = full
  /\ IF batch = <<>> \/ ~save_to_storage
     THEN /\ ppc' = "done"
          /\ presult' = PullOk(0)
          /\ UNCHANGED <<groups, group>>
     ELSE IF ~full
     THEN /\ ppc' = "save_all"
          /\ UNCHANGED <<groups, group, presult>>
     ELSE /\ groups' = GroupsOf(batch)
          /\ \E t \in DOMAIN GroupsOf(batch) : group' = t
          /\ ppc' = "delete"
          /\ UNCHANGED presult
  /\ UNCHANGED <<storage, deleted, new, storage_calls>>
  /\ UNCHANGED notPull

\* `storage.save(&records).await?` of the whole batch returns
SaveAllReturns(ok) ==
  /\ ppc = "save_all"
  /\ ppc' = "done"
  /\ IF ok
     THEN /\ storage' = storage \cup NotStored(storage, records)
          /\ storage_calls' = Append(storage_calls,
               [op |-> "save", gacha_type |-> "all", end_id |-> 0,
                batch |-> records, count |-> Cardinality(NotStored(storage, records))])
          /\ presult' = PullOk(Len(records))
     ELSE /\ presult' = PullErr
          /\ UNCHANGED <<storage, storage_calls>>
  /\ UNCHANGED <<records, full_amount, groups, group, deleted, new>>
  /\ UNCHANGED notPull

\* the delete of the group returns
DeleteReturns(ok) ==
  /\ ppc = "delete"
  /\ IF ok
     THEN LET end_id == oldest_end_id(groups[group])
              removed == NewerThan(storage, group, end_id)
          IN /\ storage' = storage \ removed
             /\ deleted' = deleted + Cardinality(removed)
             /\ storage_calls' = Append(storage_calls,
                  [op |-> "delete", gacha_type |-> group, end_id |-> end_id,
                   batch |-> <<>>, count |-> Cardinality(removed)])
             /\ ppc' = "save"
             /\ UNCHANGED presult
     ELSE /\ ppc' = "done"
          /\ presult' = PullErr
          /\ UNCHANGED <<storage, deleted, storage_calls>>
  /\ UNCHANGED <<records, full_amount, groups, group, new>>
  /\ UNCHANGED notPull

\* the save of the group returns; the loop goes on to another group, or the
\* command returns `new - deleted`
SaveReturns(ok) ==
  /\ ppc = "save"
  /\ IF ok
     THEN LET added == NotStored(storage, groups[group])
              rest == [t \in DOMAIN groups \ {group} |-> groups[t]]
          IN /\ storage' = storage \cup added
             /\ new' = new + Cardinality(added)
             /\ storage_calls' = Append(storage_calls,
                  [op |-> "save", gacha_type |-> group, end_id |-> 0,
                   batch |-> groups[group], count |-> Cardinality(added)])
             /\ groups' = rest
             /\ IF DOMAIN rest = {}
                THEN /\ ppc' = "done"
                     /\ group' = "none"
                     /\ presult' = PullOk(new' - deleted)
                ELSE /\ ppc' = "delete"
                     /\ \E t \in DOMAIN rest : group' = t
                     /\ UNCHANGED presult
     ELSE /\ ppc' = "done"
          /\ presult' = PullErr
          /\ UNCHANGED <<storage, new, storage_calls, groups, group>>
  /\ UNCHANGED <<records, full_amount, deleted>>
  /\ UNCHANGED notPull

\* ------------------------------------------------------- WebCachesVersion

DigitChars == <<"0", "1", "2", "3", "4", "5", "6", "7", "8", "9">>
IsDigit(c) == \E i \in 1..10 : DigitChars[i] = c
DigitValue(c) == (CHOOSE i \in 1..10 : DigitChars[i] = c) - 1

\* u8::MAX
U8Max == 255

\* `format!("{}", n)` of a u8: the decimal digits, no leading zero
RECURSIVE FormatU8(_)
FormatU8(n) ==
  IF n < 10 THEN <<DigitChars[n + 1]>>
  ELSE FormatU8(n \div 10) \o <<DigitChars[(n % 10) + 1]>>

\* the value of a string of digits, -1 once it is over u8::MAX
RECURSIVE DecimalU8(_, _)
DecimalU8(digits, value) ==
  IF digits = <<>> THEN value
  ELSE LET v == value * 10 + DigitValue(Head(digits))
       IN IF v > U8Max THEN -1 ELSE DecimalU8(Tail(digits), v)

\* `str::parse::<u8>()`: an optional "+", then one digit or more, of a value
\* that fits; -1 for Err(ParseIntError)
ParseU8(chars) ==
  LET digits == IF chars # <<>> /\ Head(chars) = "+" THEN Tail(chars) ELSE chars
  IN IF digits = <<>> \/ \E i \in 1..Len(digits) : ~IsDigit(digits[i])
     THEN -1
     ELSE DecimalU8(digits, 0)

\* `s.split('.')`: the parts between the dots, one part at least
RECURSIVE Split(_)
Split(chars) ==
  IF \A i \in 1..Len(chars) : chars[i] # "."
  THEN <<chars>>
  ELSE LET dot == CHOOSE i \in 1..Len(chars) :
                    chars[i] = "." /\ \A j \in 1..(i - 1) : chars[j] # "."
       IN <<SubSeq(chars, 1, dot - 1)>> \o Split(SubSeq(chars, dot + 1, Len(chars)))

\* Option<u8>
None == [some |-> FALSE, value |-> 0]
Some(value) == [some |-> TRUE, value |-> value]

WebCachesVersion(major, minor, patch, build) ==
  [major |-> major, minor |-> minor, patch |-> patch, build |-> build]

OkVersion(version) == [kind |-> "Ok", version |-> version]
ErrWebCaches == [kind |-> "WebCaches", version |-> WebCachesVersion(0, 0, 0, None)]

\* WebCachesVersion::from_str: the first three parts, and the fourth if there
\* is one; the iterator is not asked for a fifth part
from_str(chars) ==
  LET parts == Split(chars)
  IN IF Len(parts) < 3 THEN ErrWebCaches
     ELSE LET major == ParseU8(parts[1])
              minor == ParseU8(parts[2])
              patch == ParseU8(parts[3])
              build == IF Len(parts) >= 4 THEN ParseU8(parts[4]) ELSE 0
          IN IF major < 0 \/ minor < 0 \/ patch < 0 \/ build < 0
             THEN ErrWebCaches
             ELSE OkVersion(WebCachesVersion(major, minor, patch,
                              IF Len(parts) >= 4 THEN Some(build) ELSE None))

\* WebCachesVersion::version
version(v) ==
  IF v.build.some
  THEN FormatU8(v.major) \o <<".">> \o FormatU8(v.minor) \o <<".">>
         \o FormatU8(v.patch) \o <<".">> \o FormatU8(v.build.value)
  ELSE FormatU8(v.major) \o <<".">> \o FormatU8(v.minor) \o <<".">>
         \o FormatU8(v.patch)

\* #[derive(PartialOrd, Ord)] of Option<u8>: None before every Some
OptionLess(a, b) ==
  \/ ~a.some /\ b.some
  \/ a.some /\ b.some /\ a.value < b.value

\* #[derive(PartialOrd, Ord)] of WebCachesVersion: field by field, in the
\* order of the declaration
VersionLess(a, b) ==
  \/ a.major < b.major
  \/ a.major = b.major /\ a.minor < b.minor
  \/ a.major = b.major /\ a.minor = b.minor /\ a.patch < b.patch
  \/ /\ a.major = b.major /\ a.minor = b.minor /\ a.patch = b.patch
     /\ OptionLess(a.build, b.build)

\* ---------------------------------------- lookup_valid_cache_data_dir: inputs

\* the most entries of webCaches, and the most parts of a name
MaxDirs == 2
MaxParts == 5

\* the parts of the names: 9, 10, and 9 with a leading zero
Parts == {<<"9">>, <<"1", "0">>, <<"0", "9">>}

RECURSIVE Join(_)
Join(parts) ==
  IF Len(parts) = 1 THEN parts[1]
  ELSE parts[1] \o <<".">> \o Join(Tail(parts))

\* the names of the entries: up to MaxParts parts, and some names with a part
\* that is not a u8, or is one with a sign
EntryNames ==
  {Join(parts) : parts \in UNION {[1..n -> Parts] : n \in 2..MaxParts}}
    \cup {<<"x">>,
          <<"9", ".", "2", "5", "6", ".", "9">>,
          <<"9", ".", ".", "9">>,
          <<"9", ".", "1", "0", ".", "-", "9">>,
          <<"+", "9", ".", "1", "0", ".", "9">>}

\* DirEntry: the name, and whether the path is a directory
DirEntries ==
  [name : EntryNames, is_dir : {TRUE}]
    \cup [name : {<<"1", "0", ".", "1", "0", ".", "1", "0">>}, is_dir : {FALSE}]

WebCachesDirs ==
  {[exists |-> FALSE, entries |-> <<>>]}
    \cup {[exists |-> TRUE, entries |-> entries] :
            entries \in UNION {{es \in [1..n -> DirEntries] :
                                  \A i, j \in 1..n : i # j => es[i].name # es[j].name} :
                               n \in 0..MaxDirs}}

\* --------------------------------------------- lookup_valid_cache_data_dir

\* Result<PathBuf>: <game_data_dir>/webCaches/<dir>/Cache/Cache_Data
OkPath(dir) == [kind |-> "Ok", dir |-> dir]
ErrPath(kind) == [kind |-> kind, dir |-> <<>>]
DirNone == ErrPath("None")

\* `web_caches_versions` after the loop over read_dir
web_caches_versions(entries) ==
  {from_str(entries[i].name).version :
     i \in {j \in 1..Len(entries) :
              entries[j].is_dir /\ from_str(entries[j].name).kind = "Ok"}}

\* `web_caches_versions.sort(); web_caches_versions.last()`
Latest_version(versions) ==
  CHOOSE v \in versions : \A w \in versions : ~VersionLess(v, w)

DirIdle ==
  /\ dpc = "idle"
  /\ web_caches_dir = [exists |-> FALSE, entries |-> <<>>]
  /\ dresult = DirNone

\* the whole call (read_dir and its entries are taken to be readable)
lookup_valid_cache_data_dir ==
  /\ dpc = "idle"
  /\ dpc' = "done"
  /\ dresult' =
       IF ~web_caches_dir.exists THEN ErrPath("WebCaches")
       ELSE LET versions == web_caches_versions(web_caches_dir.entries)
            IN IF versions = {} THEN ErrPath("WebCaches")
               ELSE OkPath(version(Latest_version(versions)))
  /\ UNCHANGED web_caches_dir
  /\ UNCHANGED notDir

\* ------------------------------------ lookup_gacha_urls_from_endpoint: inputs

\* the longest index table
MaxEntries == 2

\* u64, kept as [l2, l1, l0] with value l2 * Million^2 + l1 * Million + l0
U64(l2, l1, l0) == [l2 |-> l2, l1 |-> l1, l0 |-> l0]

\* Creation times as the disk cache stores them.  In microseconds since 1601:
\* Epoch0; two days and a fraction of a second before Epoch0;
\* 2022-06-18 04:26:40 UTC and 123456 microseconds.  In 100 ns units since
\* 1601: Epoch0.  And the greatest u64.
TicksEpoch0 == U64(13374, 473600, 0)
TicksOlder == U64(13374, 300800, 999999)
TicksKnown == U64(13300, 0, 123456)
FiletimeEpoch0 == U64(133744, 736000, 0)
TicksMax == U64(18446744, 73709, 551615)
CreationTimes == {TicksEpoch0, TicksOlder, TicksKnown, FiletimeEpoch0, TicksMax}

\* a CacheAddr as far as the scan reads it: what file_number() returns
CacheAddr(number) == [file_number |-> number]
NoLongKey == CacheAddr(0)
LongKeys == {CacheAddr(2), CacheAddr(3)}

PREFIX == <<"1", "/", "0", "/">>
GACHA_TYPE == <<"&", "g", "a", "c", "h", "a", "_", "t", "y", "p", "e", "=">>
\* the endpoint argument, and another path
Endpoint == <<"/", "g", "?">>
OtherPath == <<"/", "x", "?">>

LongUrlBoth == PREFIX \o <<"h">> \o Endpoint \o <<"k">> \o GACHA_TYPE \o <<"1">>
LongUrlBare == <<"h">> \o Endpoint \o <<"k">> \o GACHA_TYPE \o <<"1">>
LongUrlEndpointOnly == PREFIX \o <<"h">> \o Endpoint \o <<"k">>
LongUrlTypeOnly == PREFIX \o <<"h">> \o OtherPath \o <<"k">> \o GACHA_TYPE \o <<"1">>
LongUrlNeither == PREFIX \o <<"h">> \o OtherPath \o <<"k">>
LongUrls ==
  {LongUrlBoth, LongUrlBare, LongUrlEndpointOnly, LongUrlTypeOnly, LongUrlNeither}

\* EntryStore as far as the scan reads it: what is_long_url() returns, the
\* long key, the creation time, and the string read_long_url(&block_file2)
\* returns
EntryStores ==
  [has_long_url : {TRUE}, long_key : LongKeys,
   creation_time : CreationTimes, long_url : LongUrls]
    \cup [has_long_url : {FALSE}, long_key : {NoLongKey},
          creation_time : {TicksEpoch0}, long_url : {<<>>}]

\* `entry.is_long_url()`
is_long_url(entry) == entry.has_long_url

\* `entry.long_key.file_number()`
file_number(addr) == addr.file_number

\* `entry.read_long_url(&block_file2)?`
read_long_url(entry) == entry.long_url

\* a + b
WPlus(a, b) ==
  LET s == a.lo + b.lo
  IN W(a.hi + b.hi + (s \div Million), s % Million)

\* 11_644_473_600, the seconds from 1601-01-01 to 1970-01-01
EPOCH_DELTA == W(11644, 473600)

\* OffsetDateTime::from_unix_timestamp accepts the years -9999 to 9999
MinTimestamp == W(-377706, 883200)
MaxTimestamp == W(253402, 300799)

\* ------------------------------------------ lookup_gacha_urls_from_endpoint

\* (a scan that takes a long key of any block file)
LongKeyInAnyFile(entry, file) == TRUE

\* `entry.long_key.file_number() != block_file2.header.this_file as u32`, negated
LongKeyInFile(entry, file) == file_number(entry.long_key) = file

\* `!url.contains(endpoint) && !url.contains("&gacha_type=")`: the url is skipped
SkipUrl(url, endpoint) ==
  ~Contains(url, endpoint) /\ ~Contains(url, GACHA_TYPE)

\* `url.strip_prefix("1/0/")`, or the url itself
StripPrefix(url) ==
  IF Len(url) >= Len(PREFIX) /\ SubSeq(url, 1, Len(PREFIX)) = PREFIX
  THEN SubSeq(url, Len(PREFIX) + 1, Len(url))
  ELSE url

\* (a conversion that takes the ticks for 100 ns units)
TimestampOfFiletime(creation_time) ==
  LET seconds == W(creation_time.l2, creation_time.l1)
      tenth == W(seconds.hi \div 10, ((seconds.hi % 10) * Million + seconds.lo) \div 10)
  IN WSub(tenth, EPOCH_DELTA)

\* `(entry.creation_time / 1_000_000) as i64 - 11_644_473_600`: the quotient
\* by Million drops the limb l0
Timestamp(creation_time) ==
  WSub(W(creation_time.l2, creation_time.l1), EPOCH_DELTA)

\* `skip_expired && creation_time + time::Duration::DAY < now`
Expired(skip, creation_time, at) ==
  skip /\ WLess(WAdd(creation_time, DAY), at)

\* (a sort with the comparison the other way round: oldest first)
RECURSIVE SortByCreationTimeAsc(_)
SortByCreationTimeAsc(urls) ==
  IF urls = <<>> THEN <<>>
  ELSE LET sorted == SortByCreationTimeAsc(SubSeq(urls, 1, Len(urls) - 1))
           last == urls[Len(urls)]
           before == {i \in 1..Len(sorted) :
                        ~WLess(last.creation_time, sorted[i].creation_time)}
           k == Cardinality(before)
       IN SubSeq(sorted, 1, k) \o <<last>> \o SubSeq(sorted, k + 1, Len(sorted))

\* `result.sort_by(|a, b| b.creation_time.cmp(&a.creation_time))`: a stable
\* sort, newest first
RECURSIVE SortByCreationTimeDesc(_)
SortByCreationTimeDesc(urls) ==
  IF urls = <<>> THEN <<>>
  ELSE LET sorted == SortByCreationTimeDesc(SubSeq(urls, 1, Len(urls) - 1))
           last == urls[Len(urls)]
           before == {i \in 1..Len(sorted) :
                        ~WLess(sorted[i].creation_time, last.creation_time)}
           k == Cardinality(before)
       IN SubSeq(sorted, 1, k) \o <<last>> \o SubSeq(sorted, k + 1, Len(sorted))

\* The loop over index_file.table from position i, with the urls pushed and
\* the long urls read so far; then the sort.
RECURSIVE Scan(_, _, _)
Scan(i, result, reads) ==
  IF i > Len(table)
  THEN [kind |-> "Ok", urls |-> SortByCreationTimeDesc(result), reads |-> reads]
  ELSE LET addr == table[i]
           entry == block_file1[addr]
       IN IF ~is_long_url(entry) THEN Scan(i + 1, result, reads)
          ELSE IF ~LongKeyInFile(entry, this_file) THEN Scan(i + 1, result, reads)
          ELSE LET url == read_long_url(entry)
                   read == reads \cup {addr}
               IN IF SkipUrl(url, Endpoint) THEN Scan(i + 1, result, read)
                  ELSE LET timestamp == Timestamp(entry.creation_time)
                       IN IF WLess(timestamp, MinTimestamp)
                               \/ WLess(MaxTimestamp, timestamp)
                          THEN [kind |-> "Time", urls |-> <<>>, reads |-> read]
                          ELSE IF Expired(skip_expired, timestamp, now)
                          THEN Scan(i + 1, result, read)
                          ELSE Scan(i + 1,
                                    Append(result,
                                           GachaUrl(addr, timestamp, StripPrefix(url))),
                                    read)

LookupIdle ==
  /\ lpc = "idle"
  /\ table = <<>>
  /\ block_file1 = <<>>
  /\ this_file = 2
  /\ skip_expired = FALSE
  /\ lresult = [kind |-> "None", urls |-> <<>>]
  /\ long_url_reads = {}

\* the whole call: it awaits nothing
lookup_gacha_urls_from_endpoint ==
  /\ lpc = "idle"
  /\ LET scan == Scan(1, <<>>, {})
     IN /\ lresult' = [kind |-> scan.kind, urls |-> scan.urls]
        /\ long_url_reads' = scan.reads
  /\ lpc' = "done"
  /\ UNCHANGED <<table, block_file1, this_file, skip_expired>>
  /\ UNCHANGED notLookup

\* ------------------------------------------------ fetch_gacha_records: inputs

\* the most pairs in the query of a gacha url
MaxPairs == 3

\* Option<&str>
NoStr == [some |-> FALSE, value |-> ""]
SomeStr(value) == [some |-> TRUE, value |-> value]

\* Urls are written as sequences of tokens: the names and values of the
\* query, "=", "&", and the characters of the rest.
QueryNames ==
  {"gacha_type", "real_gacha_type", "page", "size", "begin_id", "end_id", "authkey"}
QueryValues == {"1", "5"}

\* the query strings: name=value pairs with "&" between
RECURSIVE QueryString(_)
QueryString(pairs) ==
  IF pairs = <<>> THEN <<>>
  ELSE IF Len(pairs) = 1 THEN <<pairs[1][1], "=", pairs[1][2]>>
  ELSE <<pairs[1][1], "=", pairs[1][2], "&">> \o QueryString(Tail(pairs))

QueryStrings ==
  {QueryString(pairs) :
     pairs \in UNION {[1..n -> QueryNames \X QueryValues] : n \in 0..MaxPairs}}

\* the gacha urls: with the endpoint or with another path
GachaUrlStrings ==
  {<<"h">> \o path \o query : path \in {Endpoint, OtherPath}, query \in QueryStrings}

\* facet, gacha_url, gacha_type and end_id, for the endpoint Endpoint
QueryArgs ==
  [facet : {"genshin", "zzz"},
   gacha_url : GachaUrlStrings,
   gacha_type : {NoStr, SomeStr("301")},
   end_id : {NoStr, SomeStr("7")}]

\* -------------------------------------------------------- fetch_gacha_records

\* `gacha_url.find(endpoint)`: the position before the first occurrence, from
\* 0, or -1 for None
Find(s, sub) ==
  IF Contains(s, sub)
  THEN CHOOSE i \in 0..(Len(s) - Len(sub)) :
         /\ SubSeq(s, i + 1, i + Len(sub)) = sub
         /\ \A j \in 0..(i - 1) : SubSeq(s, j + 1, j + Len(sub)) # sub
  ELSE -1

\* the pieces of s between the tokens sep
RECURSIVE SplitAt(_, _)
SplitAt(s, sep) ==
  IF \A i \in 1..Len(s) : s[i] # sep
  THEN <<s>>
  ELSE LET at == CHOOSE i \in 1..Len(s) :
                   s[i] = sep /\ \A j \in 1..(i - 1) : s[j] # sep
       IN <<SubSeq(s, 1, at - 1)>> \o SplitAt(SubSeq(s, at + 1, Len(s)), sep)

\* one piece of the query: the name before the first "=", the value after it
NameValue(piece) ==
  IF \A i \in 1..Len(piece) : piece[i] # "="
  THEN <<piece, <<>>>>
  ELSE LET eq == CHOOSE i \in 1..Len(piece) :
                   piece[i] = "=" /\ \A j \in 1..(i - 1) : piece[j] # "="
       IN <<SubSeq(piece, 1, eq - 1), SubSeq(piece, eq + 1, Len(piece))>>

\* `form_urlencoded::parse(query_str.as_bytes())`: the pairs of the pieces that
\* are not empty, in order
RECURSIVE ParsePieces(_)
ParsePieces(pieces) ==
  IF pieces = <<>> THEN <<>>
  ELSE IF Head(pieces) = <<>> THEN ParsePieces(Tail(pieces))
  ELSE <<NameValue(Head(pieces))>> \o ParsePieces(Tail(pieces))

form_urlencoded_parse(query_str) == ParsePieces(SplitAt(query_str, "&"))

\* `.collect()` into a HashMap: the last pair of a name stays
Collect(pairs) ==
  [name \in {pairs[i][1] : i \in 1..Len(pairs)} |->
     pairs[CHOOSE i \in 1..Len(pairs) :
             /\ pairs[i][1] = name
             /\ \A j \in (i + 1)..Len(pairs) : pairs[j][1] # name][2]]

\* HashMap::remove(name)
Remove(queries, name) == [n \in DOMAIN queries \ {name} |-> queries[n]]

\* `end_id.or(origin_end_id.as_deref())`
Cursor(end_id, origin_end_id) ==
  IF end_id.some THEN end_id ELSE origin_end_id

\* the url of the request: the base and the pairs of the query
RequestUrl(base_url, pairs) == [base_url |-> base_url, pairs |-> pairs]
NoRequestUrl == RequestUrl(<<>>, <<>>)

\* the orders in which the HashMap can yield the names that are not removed
QueryOrders ==
  LET left == {<<"authkey">>, <<"gacha_type">>, <<"real_gacha_type">>}
  IN {order \in [1..Cardinality(left) -> left] :
        \A i, j \in 1..Cardinality(left) : i # j => order[i] # order[j]}

\* the pairs of the map, in the order given
RECURSIVE PairsOf(_, _)
PairsOf(queries, order) ==
  IF order = <<>> THEN <<>>
  ELSE IF Head(order) \in DOMAIN queries
       THEN <<<<Head(order), queries[Head(order)]>>>> \o PairsOf(queries, Tail(order))
       ELSE PairsOf(queries, Tail(order))

\* The function up to the request: Err(IllegalGachaUrl), or the url built.
BuildRequestUrl(args, order) ==
  LET endpoint_start == Find(args.gacha_url, Endpoint)
  IN IF endpoint_start < 0 THEN [kind |-> "IllegalGachaUrl", url |-> NoRequestUrl]
     ELSE LET base_url == SubSeq(args.gacha_url, 1, endpoint_start + Len(Endpoint))
              query_str == SubSeq(args.gacha_url, endpoint_start + Len(Endpoint) + 1,
                                  Len(args.gacha_url))
              queries == Collect(form_urlencoded_parse(query_str))
              gacha_type_field == IF args.facet = "zzz"
                                  THEN <<"real_gacha_type">> ELSE <<"gacha_type">>
          IN IF gacha_type_field \notin DOMAIN queries
             THEN [kind |-> "IllegalGachaUrl", url |-> NoRequestUrl]
             ELSE LET origin_gacha_type == queries[gacha_type_field]
                      origin_end_id == IF <<"end_id">> \in DOMAIN queries
                                       THEN SomeStr(queries[<<"end_id">>])
                                       ELSE NoStr
                      gacha_type == IF args.gacha_type.some
                                    THEN <<args.gacha_type.value>>
                                    ELSE origin_gacha_type
                      kept == Remove(Remove(Remove(Remove(Remove(queries,
                                gacha_type_field), <<"page">>), <<"size">>),
                                <<"begin_id">>), <<"end_id">>)
                      appended == <<<<<<"page">>, <<"1">>>>,
                                    <<<<"size">>, <<"20">>>>,
                                    <<gacha_type_field, gacha_type>>>>
                      end_id == Cursor(IF args.end_id.some
                                       THEN SomeStr(<<args.end_id.value>>)
                                       ELSE NoStr,
                                       origin_end_id)
                  IN [kind |-> "Ok",
                      url |-> RequestUrl(base_url,
                                PairsOf(kept, order) \o appended
                                  \o IF end_id.some
                                     THEN <<<<<<"end_id">>, end_id.value>>>>
                                     ELSE <<>>)]

\* what request_gacha_url_with_retry returns, by kind
RequestOutcomes == {request_gacha_url(http).kind : http \in HttpRoundTrips}

QueryIdle ==
  /\ qpc = "idle"
  /\ qargs = [facet |-> "genshin", gacha_url |-> <<>>, gacha_type |-> NoStr,
              end_id |-> NoStr]
  /\ request_url = NoRequestUrl
  /\ qresult = "None"

\* the call, up to `request_gacha_url_with_retry(reqwest, url, None).await`
fetch_gacha_records(order) ==
  /\ qpc = "idle"
  /\ LET built == BuildRequestUrl(qargs, order)
     IN IF built.kind = "Ok"
        THEN /\ qpc' = "request"
             /\ request_url' = built.url
             /\ UNCHANGED qresult
        ELSE /\ qpc' = "done"
             /\ qresult' = built.kind
             /\ UNCHANGED request_url
  /\ UNCHANGED qargs
  /\ UNCHANGED notQuery

\* the request returns, and with it the call
RequestWithRetryReturns(kind) ==
  /\ qpc = "request"
  /\ qpc' = "done"
  /\ qresult' = kind
  /\ UNCHANGED <<qargs, request_url>>
  /\ UNCHANGED notQuery

\* a cache directory of up to MaxEntries entries, read at Epoch0 or one day later
InitLookup ==
  /\ FetchIdle
  /\ PullIdle
  /\ DirIdle
  /\ QueryIdle
  /\ NoCalls
  /\ now \in {Epoch0, WAdd(Epoch0, DAY)}
  /\ lpc = "idle"
  /\ \E n \in 0..MaxEntries :
       /\ table = [i \in 1..n |-> i]
       /\ block_file1 \in [1..n -> EntryStores]
  /\ this_file \in {2, 3}
  /\ skip_expired \in BOOLEAN
  /\ lresult = [kind |-> "None", urls |-> <<>>]
  /\ long_url_reads = {}

NextLookup == lookup_gacha_urls_from_endpoint

SpecLookup == InitLookup /\ [][NextLookup]_vars

\* ----------------------------------------------------------- specifications

Init ==
  ValidateIdle /\ FetchIdle /\ LookupIdle /\ PullIdle /\ DirIdle /\ QueryIdle

InitFetch ==
  FetchIdle /\ ValidateIdle /\ LookupIdle /\ PullIdle /\ DirIdle /\ QueryIdle

Next ==
  \/ \E p \in Procs, f \in Facets, uid \in Uids, gacha_urls \in CandidateLists :
       find_gacha_url_and_validate_consistency(p, f, uid, gacha_urls)
  \/ \E p \in Procs : LockAcquired(p)
  \/ \E p \in Procs : ThrottleReturns(p)
  \/ \E p \in Procs : \E result \in ProbeResultsNow(p) : ProbeReturns(p, result)
  \/ ClockTick

Spec == Init /\ [][Next]_vars

SpecFetch == InitFetch /\ [][NextFetch]_vars

\* Every await of the validator returns: the Mutex of tokio hands the lock to
\* the first waiter, the sleep ends, and the round trips of a probe return.
Fairness ==
  \A p \in Procs :
    /\ WF_vars(LockAcquired(p))
    /\ WF_vars(ThrottleReturns(p))
    /\ WF_vars(\E result \in ProbeResultsNow(p) : ProbeReturns(p, result))

SpecLive == Init /\ [][Next]_vars /\ Fairness

\* the storage holds any records of the uid
InitPull ==
  /\ FetchIdle
  /\ ValidateIdle
  /\ LookupIdle
  /\ DirIdle
  /\ QueryIdle
  /\ ppc = "idle"
  /\ records = <<>>
  /\ full_amount = FALSE
  /\ storage \in SUBSET GachaRecords
  /\ groups = <<>>
  /\ group = "none"
  /\ deleted = 0
  /\ new = 0
  /\ storage_calls = <<>>
  /\ presult = PullNone

NextPull ==
  \/ \E batch \in FetchedBatches, save_to_storage, full \in BOOLEAN :
       pull_all_gacha_records(batch, save_to_storage, full)
  \/ \E ok \in BOOLEAN : SaveAllReturns(ok)
  \/ \E ok \in BOOLEAN : DeleteReturns(ok)
  \/ \E ok \in BOOLEAN : SaveReturns(ok)

SpecPull == InitPull /\ [][NextPull]_vars

\* webCaches is missing, or holds up to MaxDirs entries, which read_dir yields
\* in any order
InitDir ==
  /\ FetchIdle
  /\ ValidateIdle
  /\ LookupIdle
  /\ PullIdle
  /\ QueryIdle
  /\ dpc = "idle"
  /\ web_caches_dir \in WebCachesDirs
  /\ dresult = DirNone

NextDir == lookup_valid_cache_data_dir

SpecDir == InitDir /\ [][NextDir]_vars

\* the arguments of the call are any of QueryArgs
InitQuery ==
  /\ FetchIdle
  /\ ValidateIdle
  /\ LookupIdle
  /\ PullIdle
  /\ DirIdle
  /\ qpc = "idle"
  /\ qargs \in QueryArgs
  /\ request_url = NoRequestUrl
  /\ qresult = "None"

NextQuery ==
  \/ \E order \in QueryOrders : fetch_gacha_records(order)
  \/ \E kind \in RequestOutcomes : RequestWithRetryReturns(kind)

SpecQuery == InitQuery /\ [][NextQuery]_vars

\* ------------------------------------------------------ properties of Spec

Done(p) == call[p].pc = "done"

\* every candidate of the call of task p was fresh when the call got the lock
AllFresh(p) == call[p].valid_gacha_urls = call[p].gacha_urls

\* the call of task p is the last one that got the lock
Latest(p) == call[p].seq = entered /\ call[p].pc \in {"sleep", "probe", "done"}

\* C1: of two calls with the same facet, uid and candidate list, less than 24
\* hours apart, the first of which returned a validated url, the second issues
\* no probe and returns the url the first returned.  (Stated here for lists of
\* which no candidate has expired at the second call.)
C1_SecondCallProbesNothing ==
  \A p, q \in Procs :
    ( /\ Done(p) /\ Done(q)
      /\ call[p].seq < call[q].seq
      /\ call[p].facet = call[q].facet
      /\ call[p].uid = call[q].uid
      /\ call[p].gacha_urls = call[q].gacha_urls
      /\ WLess(call[q].local_datetime, WAdd(call[p].local_datetime, DAY))
      /\ AllFresh(q)
      /\ call[p].result.kind = "Ok" )
    => /\ call[q].probed = <<>>
       /\ call[q].result = call[p].result

\* the probe of the first candidate reported another account's uid
FirstIsOther(c) ==
  /\ Len(c.probed) >= 1
  /\ c.probed[1].result.kind = "Ok"
  /\ c.probed[1].result.data \notin {c.uid, "None"}

\* the probe of the second candidate reported the expected uid
SecondIsExpected(c) ==
  /\ Len(c.probed) >= 2
  /\ c.probed[2].result = OkUid(c.uid)

\* C2: fresh candidates [A, B], empty cache, A reports another uid and B the
\* expected one: A is probed first, with nothing cached; A is then cached under
\* the key of the uid it reported and B is probed; B is then cached under the
\* expected uid's key and returned, after exactly two probes.
C2_ProbeCacheProbeReturn ==
  \A p \in Procs :
    LET c == call[p]
        A == c.gacha_urls[1]
        B == c.gacha_urls[2]
        keyA == <<c.facet, c.probed[1].result.data, A.addr>>
        keyB == <<c.facet, c.uid, B.addr>>
    IN ( /\ Latest(p)
         /\ Len(c.gacha_urls) = 2
         /\ AllFresh(p)
         /\ c.cached0 = {} )
       => /\ c.probed = <<>> => (c.pc = "probe" /\ c.counter = 0 /\ cached = {})
          /\ FirstIsOther(c)
               => /\ c.probed[1].url = A
                  /\ Len(c.probed) = 1
                       => /\ c.pc = "probe" /\ c.counter = 1
                          /\ cached = {[key |-> keyA, value |-> A]}
          /\ (FirstIsOther(c) /\ SecondIsExpected(c))
               => /\ Len(c.probed) = 2
                  /\ c.probed[2].url = B
                  /\ c.pc = "done"
                  /\ c.result = OkUrl(B)
                  /\ cached = {[key |-> keyA, value |-> A],
                               [key |-> keyB, value |-> B]}

C2_Witness ==
  \E p \in Procs :
    /\ Latest(p) /\ Done(p)
    /\ call[p].gacha_urls = <<UrlA, UrlB>>
    /\ AllFresh(p)
    /\ call[p].cached0 = {}
    /\ FirstIsOther(call[p]) /\ SecondIsExpected(call[p])
    /\ call[p].result = OkUrl(UrlB)

\* the last probe of the call of task p returned TimeoutdGachaUrl
AuthExpired(c) ==
  /\ c.probed # <<>>
  /\ c.probed[Len(c.probed)].result.kind = "TimeoutdGachaUrl"

\* C6: when the probe of a candidate returns TimeoutdGachaUrl the call returns
\* that error in the same step, with the cache as it was and without moving to
\* another candidate; no probe of the call comes after that one.
C6_AuthExpiredFailsAtOnce ==
  /\ [](\A p \in Procs : \A i \in 1..Len(call[p].probed) :
          call[p].probed[i].result.kind = "TimeoutdGachaUrl"
            => /\ i = Len(call[p].probed)
               /\ call[p].pc = "done"
               /\ call[p].result = ErrUrl(Err("TimeoutdGachaUrl")))
  /\ [][\A p \in Procs :
          ( /\ call[p].pc = "probe"
            /\ Len(call'[p].probed) = Len(call[p].probed) + 1
            /\ AuthExpired(call'[p]) )
          => /\ cached' = cached
             /\ call'[p].counter = call[p].counter
             /\ call'[p].pc = "done"]_vars

C6_Witness ==
  \E p \in Procs :
    /\ Done(p)
    /\ AuthExpired(call[p])
    /\ Len(call[p].probed) = 1
    /\ Len(call[p].valid_gacha_urls) = 2
    /\ call[p].result = ErrUrl(Err("TimeoutdGachaUrl"))

\* C7: no call returns GachaRecordRetcode; once a probe has returned it, with
\* whatever retcode and message, the call has returned VacantGachaUrl.
C7_RetcodeBecomesVacant ==
  \A p \in Procs :
    /\ call[p].result.kind # "GachaRecordRetcode"
    /\ \A i \in 1..Len(call[p].probed) :
         call[p].probed[i].result.kind = "GachaRecordRetcode"
           => /\ Done(p)
              /\ call[p].result = ErrUrl(Err("VacantGachaUrl"))

C7_Witness ==
  \E p \in Procs :
    /\ Done(p)
    /\ Len(call[p].probed) = 2
    /\ call[p].probed[2].result = ErrGachaRecordRetcode(-1, MsgUpperAuthkey)
    /\ call[p].result.kind = "VacantGachaUrl"


\* the call of task p has the lock and has not returned
InPass(p) == call[p].pc \in {"sleep", "probe"}

\* C14: a call between its first cache lookup and its return holds the lock,
\* so that at most one call is there; and while it is there, across the
\* awaits of its probes and throttle sleeps, another call does nothing but
\* queue for the lock, and the cache changes only in the steps of this call.
C14_PassesAreExclusive ==
  /\ [](\A p \in Procs : InPass(p) => holder = p)
  /\ [][\A p \in Procs :
          InPass(p) =>
            /\ \A q \in Procs \ {p} :
                 \/ call'[q] = call[q]
                 \/ /\ call[q].pc = "idle"
                    /\ call'[q].pc = "lock"
                    /\ call'[q].probed = <<>>
                    /\ cached' = cached
            /\ cached' # cached => call'[p] # call[p]]_vars

\* a call for one account sleeps out the throttle, holding the lock, after
\* probes that wrote to the cache, while a call for another account waits
C14_Witness ==
  \E p, q \in Procs :
    /\ p # q
    /\ call[p].pc = "sleep"
    /\ call[p].cached0 # cached
    /\ holder = p
    /\ call[q].pc = "lock"
    /\ waiters = <<q>>
    /\ call[q].uid # call[p].uid

\* the step takes the lock for task p and runs on to its first candidate
Starts(p) ==
  call[p].pc \in {"idle", "lock"} /\ call'[p].pc \in {"sleep", "probe", "done"}

\* the step ends a probe of task p that reported another account, or none
Continues(p) ==
  /\ call[p].pc = "probe"
  /\ call'[p] # call[p]
  /\ Len(call'[p].probed) = Len(call[p].probed) + 1
  /\ LET result == call'[p].probed[Len(call'[p].probed)].result
     IN result.kind = "Ok" /\ result.data # call[p].uid

\* what the step does with the candidate at position k (from 0): its key is
\* looked up in the cache; a fresh entry is returned, with no probe of this
\* candidate and no step further; a stale entry is removed; and without a
\* fresh entry the candidate is the next to be probed
LookedUp(p, k) ==
  LET c == call'[p]
      gacha_url == c.valid_gacha_urls[k + 1]
      entry == {e \in cached : e.key = <<c.facet, c.uid, gacha_url.addr>>}
      fresh == {e \in entry : WLess(c.local_datetime, WAdd(e.value.creation_time, DAY))}
      after == {e \in cached' : e.key = <<c.facet, c.uid, gacha_url.addr>>}
  IN /\ Len(c.probed) = k
     /\ IF fresh # {}
        THEN /\ c.pc = "done"
             /\ c.result.kind = "Ok"
             /\ c.result.url \in {e.value : e \in fresh}
             /\ after = entry
        ELSE /\ c.pc \in {"sleep", "probe"}
             /\ c.counter = k
             /\ after = {}

\* C15: the candidates are looked up in order under the key (facet, expected
\* uid, slot address); a cached entry with creation_time + 24h > the call's
\* local time is returned at once; a stale entry is removed and the candidate
\* is probed as after a miss.
C15_CacheHitOrEvict ==
  [][\A p \in Procs :
       /\ (Starts(p) /\ call'[p].valid_gacha_urls # <<>>) => LookedUp(p, 0)
       /\ (Continues(p) /\ call[p].counter + 1 < Len(call[p].valid_gacha_urls))
            => LookedUp(p, call[p].counter + 1)]_vars

\* a call has found a stale entry under the key of its first candidate, has
\* removed it and probed the candidate, and has then returned the fresh entry
\* under the key of its second candidate without a second probe
C15_Witness ==
  \E q \in Procs :
    /\ Done(q)
    /\ call[q].result.kind = "Ok"
    /\ Len(call[q].valid_gacha_urls) = 2
    /\ Len(call[q].probed) = 1
    /\ \E e \in call[q].cached0 :
         /\ e.key = <<call[q].facet, call[q].uid, call[q].valid_gacha_urls[1].addr>>
         /\ ~WLess(call[q].local_datetime, WAdd(e.value.creation_time, DAY))
         /\ e \notin cached
    /\ \E h \in call[q].cached0 :
         /\ h.key = <<call[q].facet, call[q].uid, call[q].valid_gacha_urls[2].addr>>
         /\ call[q].result.url = h.value

\* C19: a probe that ends in GachaRecordRetcode makes only its candidate
\* unusable: unless it was the last fresh candidate, the call goes on to the
\* next one, by a probe or by a cache hit.
C19_RetcodeSkipsCandidate ==
  \A p \in Procs :
    Done(p) =>
      \A i \in 1..Len(call[p].probed) :
        ( /\ call[p].probed[i].result.kind = "GachaRecordRetcode"
          /\ i < Len(call[p].valid_gacha_urls) )
          => (Len(call[p].probed) > i \/ call[p].result.kind = "Ok")

\* a probe of the url, made for the facet, reported the uid
ProbeReported(f, gacha_url, uid) ==
  \E q \in Procs :
    /\ call[q].facet = f
    /\ \E i \in 1..Len(call[q].probed) :
         /\ call[q].probed[i].url = gacha_url
         /\ call[q].probed[i].result.kind = "Ok"
         /\ call[q].probed[i].result.data = uid

\* C21: every cache entry under the key (facet, u, a) holds a url of slot a
\* for which a probe made with the facet reported uid u; and every url a call
\* returned, from the cache or after a probe, was reported by a probe to be of
\* the expected uid and has creation_time + 24h > the local time of the call.
C21_CacheHoldsProbedUrls ==
  /\ \A e \in cached :
       /\ e.key[3] = e.value.addr
       /\ ProbeReported(e.key[1], e.value, e.key[2])
  /\ \A p \in Procs :
       (Done(p) /\ call[p].result.kind = "Ok") =>
         /\ ProbeReported(call[p].facet, call[p].result.url, call[p].uid)
         /\ WLess(call[p].local_datetime,
                  WAdd(call[p].result.url.creation_time, DAY))

\* a call has returned, without a probe of its own, a url that the call of
\* another task probed and filed under a uid other than the one it looked for
C21_Witness ==
  \E p, q \in Procs :
    /\ p # q
    /\ Done(p)
    /\ call[p].result.kind = "Ok"
    /\ call[p].probed = <<>>
    /\ call[q].uid # call[p].uid
    /\ \E i \in 1..Len(call[q].probed) :
         /\ call[q].probed[i].url = call[p].result.url
         /\ call[q].probed[i].result.data = call[p].uid
    /\ \E e \in cached :
         e.key = <<call[p].facet, call[p].uid, call[p].result.url.addr>>

\* ------------------------------------------------- properties of SpecLive

\* the probes of a call are of its fresh candidates, in order, one each
OneProbePerCandidate ==
  \A p \in Procs :
    /\ Len(call[p].probed) <= Len(call[p].valid_gacha_urls)
    /\ \A i \in 1..Len(call[p].probed) :
         call[p].probed[i].url = call[p].valid_gacha_urls[i]

\* the lock is held by a call that has not returned, or by none
LockReleased ==
  /\ \A p \in Procs : Done(p) => holder # p
  /\ holder # "free" => call[holder].pc \in {"lock", "sleep", "probe"}
  /\ (\A p \in Procs : call[p].pc \in {"idle", "done"}) => holder = "free"

LookupDone == lpc = "done"

\* the entry a returned url was made from
EntryOf(gacha_url) == block_file1[gacha_url.addr]

\* the entry has a long url, and its long key points into data_2
ValidLongUrl(entry) ==
  is_long_url(entry) /\ file_number(entry.long_key) = this_file

\* the addresses of the valid long-url entries whose url has the endpoint and
\* the marker
BothMatch ==
  {addr \in 1..Len(table) :
     /\ ValidLongUrl(block_file1[addr])
     /\ Contains(block_file1[addr].long_url, Endpoint)
     /\ Contains(block_file1[addr].long_url, GACHA_TYPE)}

\* no valid long-url entry is dropped for its age
NoneExpired ==
  \A addr \in 1..Len(table) :
    ValidLongUrl(block_file1[addr])
      => ~Expired(skip_expired, Timestamp(block_file1[addr].creation_time), now)

\* C8: a returned url contains the endpoint and contains "&gacha_type="; when
\* no entry is expired, the result has as many urls as there are valid
\* long-url entries with both.
C8_EndpointAndGachaType ==
  (LookupDone /\ lresult.kind = "Ok") =>
    /\ \A i \in 1..Len(lresult.urls) :
         /\ Contains(EntryOf(lresult.urls[i]).long_url, Endpoint)
         /\ Contains(EntryOf(lresult.urls[i]).long_url, GACHA_TYPE)
    /\ NoneExpired => Len(lresult.urls) = Cardinality(BothMatch)

\* C9: every returned url, and every long url read, belongs to an entry that
\* has a long url and whose long key has the file number of the header of
\* data_2.
C9_LongKeyInData2 ==
  LookupDone =>
    /\ \A i \in 1..Len(lresult.urls) :
         /\ is_long_url(EntryOf(lresult.urls[i]))
         /\ file_number(EntryOf(lresult.urls[i]).long_key) = this_file
    /\ \A addr \in long_url_reads :
         /\ is_long_url(block_file1[addr])
         /\ file_number(block_file1[addr].long_key) = this_file

\* the scan has met an entry without long url and an entry whose long key
\* points into another file, the latter with a url and a creation time that
\* pass every other test, and returned nothing
C9_Witness ==
  /\ LookupDone
  /\ lresult.kind = "Ok"
  /\ Len(table) = 2
  /\ ~is_long_url(block_file1[1])
  /\ is_long_url(block_file1[2])
  /\ file_number(block_file1[2].long_key) # this_file
  /\ block_file1[2].long_url = LongUrlBoth
  /\ block_file1[2].creation_time = TicksEpoch0
  /\ lresult.urls = <<>>
  /\ long_url_reads = {}

\* a \div 10
WDiv10(a) == W(a.hi \div 10, ((a.hi % 10) * Million + a.lo) \div 10)

\* the seconds since 1601 of a returned url
SecondsSince1601(gacha_url) == WPlus(gacha_url.creation_time, EPOCH_DELTA)

ReturnedAddr(addr) ==
  \E i \in 1..Len(lresult.urls) : lresult.urls[i].addr = addr

\* the entry passes every test but the one on its age
PassesOtherTests(addr) ==
  /\ ValidLongUrl(block_file1[addr])
  /\ ~SkipUrl(block_file1[addr].long_url, Endpoint)

\* C11 (the extractor's half): with skip_expired set, a valid long-url entry
\* whose url has the endpoint and the marker is returned if and only if
\* creation_time + 24h > now; an entry with creation_time + 24h = now is
\* skipped.
C11_ReturnedIffFresh ==
  (LookupDone /\ skip_expired /\ lresult.kind = "Ok") =>
    \A addr \in 1..Len(table) :
      addr \in BothMatch =>
        (ReturnedAddr(addr)
           <=> WLess(now, WAdd(Timestamp(block_file1[addr].creation_time), DAY)))

\* the addresses the scan pushes, in the order of the table
Pushed ==
  {addr \in 1..Len(table) :
     /\ PassesOtherTests(addr)
     /\ ~Expired(skip_expired, Timestamp(block_file1[addr].creation_time), now)}

\* C12: the returned list is in descending order of creation time, and it
\* holds each entry that passed the tests once, and nothing else.
C12_SortedDescending ==
  (LookupDone /\ lresult.kind = "Ok") =>
    /\ \A i, j \in 1..Len(lresult.urls) :
         i < j => ~WLess(lresult.urls[i].creation_time, lresult.urls[j].creation_time)
    /\ {lresult.urls[i].addr : i \in 1..Len(lresult.urls)} = Pushed
    /\ Len(lresult.urls) = Cardinality(Pushed)
    /\ \A i \in 1..Len(lresult.urls) :
         lresult.urls[i] =
           GachaUrl(lresult.urls[i].addr,
                    Timestamp(EntryOf(lresult.urls[i]).creation_time),
                    StripPrefix(EntryOf(lresult.urls[i]).long_url))

\* the scan met the older entry first and returned the newer one first
C12_Witness ==
  /\ LookupDone
  /\ Len(lresult.urls) = 2
  /\ lresult.urls[1].addr = 2
  /\ lresult.urls[2].addr = 1
  /\ WLess(lresult.urls[2].creation_time, lresult.urls[1].creation_time)


\* C18 (the extractor's half): a scan that leaves no url after its tests does
\* not return Ok with an empty list.
C18_NoEmptySuccess ==
  (LookupDone /\ lresult.kind = "Ok") => lresult.urls # <<>>

\* -------------------------------------------------- properties of SpecPull

\* the sum of the counts the storage returned for the calls of one kind
RECURSIVE CountOf(_, _)
CountOf(calls, op) ==
  IF calls = <<>> THEN 0
  ELSE (IF Head(calls).op = op THEN Head(calls).count ELSE 0)
         + CountOf(Tail(calls), op)

\* the least id of the records of a group
LeastId(group_records) ==
  CHOOSE id \in {group_records[i].id : i \in 1..Len(group_records)} :
    \A i \in 1..Len(group_records) : id <= group_records[i].id

\* every delete was given the least id of the fetched records of its type
DeleteFromLeastId ==
  \A k \in 1..Len(storage_calls) :
    storage_calls[k].op = "delete" =>
      storage_calls[k].end_id = LeastId(GroupOf(records, storage_calls[k].gacha_type))

\* every save of a group comes after the delete for its type
DeleteBeforeSave ==
  \A k \in 1..Len(storage_calls) :
    (storage_calls[k].op = "save" /\ full_amount) =>
      \E j \in 1..(k - 1) :
        /\ storage_calls[j].op = "delete"
        /\ storage_calls[j].gacha_type = storage_calls[k].gacha_type

\* the command returns what was inserted minus what was deleted
NetChanges ==
  (ppc = "done" /\ presult.kind = "Ok" /\ full_amount /\ storage_calls # <<>>) =>
    presult.changes = CountOf(storage_calls, "save") - CountOf(storage_calls, "delete")

\* C13: with full_amount and save_to_storage set, for every gacha type of the
\* batch, whatever the order of the batch: the delete is given the least id
\* of the type's fetched records, it comes before the save of these records,
\* and the command returns the inserted minus the deleted.
C13_DeleteOldestThenSave ==
  DeleteFromLeastId /\ DeleteBeforeSave /\ NetChanges


\* --------------------------------------------------- properties of SpecDir

DirDone == dpc = "done"

\* the positions of the subdirectories whose name from_str accepts
ValidDirs ==
  {i \in 1..Len(web_caches_dir.entries) :
     /\ web_caches_dir.entries[i].is_dir
     /\ from_str(web_caches_dir.entries[i].name).kind = "Ok"}

VersionAt(i) == from_str(web_caches_dir.entries[i].name).version

\* C16: the call fails with WebCaches exactly when webCaches is missing or
\* has no subdirectory with a version name; otherwise the directory of the
\* returned path is a subdirectory that exists, and no subdirectory has a
\* greater version.
C16_GreatestExistingVersion ==
  DirDone =>
    /\ dresult.kind = "WebCaches" <=> (~web_caches_dir.exists \/ ValidDirs = {})
    /\ dresult.kind = "Ok" =>
         \E i \in ValidDirs :
           /\ web_caches_dir.entries[i].name = dresult.dir
           /\ \A j \in ValidDirs : ~VersionLess(VersionAt(i), VersionAt(j))

\* the value of a string of digits
RECURSIVE NumeralValue(_)
NumeralValue(digits) ==
  IF digits = <<>> THEN 0
  ELSE NumeralValue(SubSeq(digits, 1, Len(digits) - 1)) * 10
         + DigitValue(digits[Len(digits)])

\* the part spells an integer of 0..255
IsU8Numeral(chars) ==
  LET digits == IF chars # <<>> /\ Head(chars) = "+" THEN Tail(chars) ELSE chars
  IN /\ digits # <<>>
     /\ \A i \in 1..Len(digits) : IsDigit(digits[i])
     /\ NumeralValue(digits) <= 255

\* the name has three or four parts, each an integer of 0..255
ThreeOrFourU8Parts(chars) ==
  /\ Len(Split(chars)) \in {3, 4}
  /\ \A i \in 1..Len(Split(chars)) : IsU8Numeral(Split(chars)[i])

\* C17: from_str accepts a name if and only if it has exactly three or exactly
\* four parts between dots, each an integer of 0..255; the scan returns a
\* path only if webCaches has a subdirectory with such a name.
C17_ThreeOrFourParts ==
  /\ \A i \in 1..Len(web_caches_dir.entries) :
       from_str(web_caches_dir.entries[i].name).kind = "Ok"
         <=> ThreeOrFourU8Parts(web_caches_dir.entries[i].name)
  /\ (DirDone /\ dresult.kind = "Ok") =>
       \E i \in 1..Len(web_caches_dir.entries) :
         /\ web_caches_dir.entries[i].is_dir
         /\ ThreeOrFourU8Parts(web_caches_dir.entries[i].name)


\* ------------------------------------------------- properties of SpecQuery

\* the request url has been built
RequestBuilt == qpc \in {"request", "done"} /\ request_url # NoRequestUrl

\* the positions of the pairs of a name in the request url
PairsNamed(name) ==
  {i \in 1..Len(request_url.pairs) : request_url.pairs[i][1] = <<name>>}

\* the name has one pair in the request url, with the value given
OnePair(name, value) ==
  /\ Cardinality(PairsNamed(name)) = 1
  /\ \A i \in PairsNamed(name) : request_url.pairs[i][2] = value

GachaTypeField == IF qargs.facet = "zzz" THEN "real_gacha_type" ELSE "gacha_type"

\* the request has one page=1, one size=20 and one pair of the facet's
\* gacha type field
OnePageSizeGachaType ==
  RequestBuilt =>
    /\ OnePair("page", <<"1">>)
    /\ OnePair("size", <<"20">>)
    /\ Cardinality(PairsNamed(GachaTypeField)) = 1

\* C20: the request carries end_id only when the caller gives one, and then
\* the caller's: with end_id = None it has no end_id pair, whatever the gacha
\* url held; and it has one page=1, one size=20 and one pair of the facet's
\* gacha type field.
C20_CursorOnlyFromCaller ==
  RequestBuilt =>
    /\ IF qargs.end_id.some
       THEN OnePair("end_id", <<qargs.end_id.value>>)
       ELSE PairsNamed("end_id") = {}
    /\ OnePageSizeGachaType

====
